---- MODULE Spec2Model ----
(***************************************************************************)
(* A model of scripts/pycsv.py: a command-line filter that copies a CSV    *)
(* stream to standard output with the columns named in remove_list         *)
(* removed.                                                                *)
(*                                                                         *)
(* The model works on records: a stream is a sequence of raw rows as       *)
(* csv.reader yields them (a row is a sequence of cells, the empty         *)
(* sequence is a blank line), and standard output is the sequence of       *)
(* records handed to csv.writer.  The input is supplied row by row by the  *)
(* environment, and every row consumed from a stream is recorded in        *)
(* `read`, so that the output can be compared with the input.              *)
(***************************************************************************)
EXTENDS Integers, Sequences, FiniteSets, TLC

VARIABLES
    sys_argv,           \* sys.argv: the program name followed by the arguments
    openResult,         \* what open(maybe_file) does in this environment
    pc,                 \* position of the script
    infile,             \* "unset", "file" or "stdin"
    columns,            \* the local `columns` of the fallback branch (<<>> = unset)
    columns_to_remove,  \* parameter of remove_columns
    reader_fieldnames,  \* reader.fieldnames, the input header
    fieldnames,         \* local of remove_columns, the output schema
    read,               \* raw rows consumed so far from each stream
    opened,             \* handles the program acquired with open()
    closed,             \* handles the program called close() on
    stdout,             \* records written to standard output
    stderr,             \* messages written to standard error
    exception,          \* the uncaught exception, "" when none
    exit_status         \* process exit status, -1 while running

vars == <<sys_argv, openResult, pc, infile, columns, columns_to_remove,
          reader_fieldnames, fieldnames, read, opened, closed, stdout,
          stderr, exception, exit_status>>

----------------------------------------------------------------------------
(* Bounds of the model *)

\* longest header and widest row the environment supplies
MaxCols == 2

\* most raw rows after the header the environment supplies
MaxRows == 2

\* column names an input header is built from
HeaderNames == {"A", "B", "E1"}

\* cell texts: one with leading white space, one that looks like a number
Cells == {" x", "01"}

\* command lines: no argument, one argument, two arguments
ArgvChoices == {<<"pycsv.py">>, <<"pycsv.py", "A">>, <<"pycsv.py", "A", "B">>}

\* outcomes of open(): success, or the OSError subclass it raises
OpenResults == {"ok", "FileNotFoundError", "PermissionError", "IsADirectoryError"}

\* removal lists remove_columns is exercised with on its own
RemovalChoices == {<<>>, <<"B">>, <<"E1", "C2">>}

SeqsUpTo(S, n) == UNION {[1..k -> S] : k \in 0..n}

Headers == SeqsUpTo(HeaderNames, MaxCols)

Rows == SeqsUpTo(Cells, MaxCols)

----------------------------------------------------------------------------
(* Program constants and pure helpers *)

remove_list ==
    <<"E1", "E2", "E3", "E4", "E5", "E6", "C1", "C2", "C3", "C4", "C5", "C6">>

UsageMessage == "Usage: script.py [file]"

\* csv.DictReader's defaults: the key of surplus cells, the value of missing ones
restkey == "<restkey=None>"

restval == "<restval=None>"

\* `x in list`
InList(x, list) == \E i \in 1..Len(list) : list[i] = x

\* variant: the test is off by one
UsageError_OffByOne(argv) == Len(argv) < 3

\* len(sys.argv) < 2
UsageError(argv) == Len(argv) < 2

\* variant: except OSError
Caught_AnyOSError(exc) == exc # "ok"

\* except FileNotFoundError
Caught(exc) == exc = "FileNotFoundError"

\* variant: the captured arguments are passed as the removal list
RemovalArgument_FromArgs == columns

\* the third argument of the call remove_columns(reader, sys.stdout, remove_list)
RemovalArgument == remove_list

Reverse(s) == [i \in 1..Len(s) |-> s[Len(s) + 1 - i]]

\* variant: `in` for `not in`
FilterFieldnames_Inverted(names, remove) ==
    SelectSeq(names, LAMBDA col : InList(col, remove))

\* variant: the surviving names lose the header's order
FilterFieldnames_Unordered(names, remove) ==
    Reverse(SelectSeq(names, LAMBDA col : ~InList(col, remove)))

\* [col for col in reader.fieldnames if col not in columns_to_remove]
FilterFieldnames(names, remove) ==
    SelectSeq(names, LAMBDA col : ~InList(col, remove))

\* DictReader.__next__ skips the rows csv.reader returns as []
IsBlank(row) == row = <<>>

Min(a, b) == IF a < b THEN a ELSE b

MaxOf(S) == CHOOSE x \in S : \A y \in S : y <= x

\* variant: dict(zip(fieldnames, row)) alone, nothing for the missing columns
DictRow_NoRestval(names, row) ==
    LET m == Min(Len(names), Len(row))
    IN  [c \in {names[i] : i \in 1..m} |->
            row[MaxOf({i \in 1..m : names[i] = c})]]

\* The mapping DictReader builds for a non-blank row: dict(zip(fieldnames, row)),
\* then the surplus cells under restkey, or restval for the missing columns.
DictRow(names, row) ==
    LET lf == Len(names)
        lr == Len(row)
        m  == Min(lf, lr)
        keys == {names[i] : i \in 1..lf} \cup (IF lf < lr THEN {restkey} ELSE {})
    IN  [c \in keys |->
            IF c = restkey /\ lf < lr THEN SubSeq(row, lf + 1, lr)
            ELSE IF \E i \in (lr + 1)..lf : names[i] = c THEN restval
            ELSE row[MaxOf({i \in 1..m : names[i] = c})]]

\* row[col] raises KeyError for a col the mapping lacks
KeyError(names, d) == \E j \in 1..Len(names) : names[j] \notin DOMAIN d

\* {col: row[col] for col in fieldnames}
FilteredRow(names, d) == [col \in {names[j] : j \in 1..Len(names)} |-> d[col]]

\* variant: numeric-looking text is rewritten as a number
FormatField_Coerce(v) ==
    IF v = restval THEN "" ELSE IF v = "01" THEN "1" ELSE v

\* csv.writer writes None as the empty field and text as it is
FormatField(v) == IF v = restval THEN "" ELSE v

\* DictWriter._dict_to_list: the values in the order of the writer's fieldnames
DictToList(names, rowdict) ==
    [j \in 1..Len(names) |-> FormatField(rowdict[names[j]])]

\* variant: the header record is not written
writeheader_Skipped(out, names) == out

\* writer.writeheader()
writeheader(out, names) == Append(out, names)

\* variant: the record is put before what was written
writerow_Prepend(out, names, rowdict) == <<DictToList(names, rowdict)>> \o out

\* writer.writerow(filtered_row)
writerow(out, names, rowdict) == Append(out, DictToList(names, rowdict))

\* raw rows the current stream may still supply
Remaining == MaxRows + 1 - Len(read[infile])

\* sequences of n blank lines
Blanks(n) == [i \in 1..n |-> <<>>]

----------------------------------------------------------------------------
(* The script *)

Init ==
    /\ sys_argv \in ArgvChoices
    /\ openResult \in OpenResults
    /\ pc = "start"
    /\ infile = "unset"
    /\ columns = <<>>
    /\ columns_to_remove = <<>>
    /\ reader_fieldnames = <<>>
    /\ fieldnames = <<>>
    /\ read = [file |-> <<>>, stdin |-> <<>>]
    /\ opened = {}
    /\ closed = {}
    /\ stdout = <<>>
    /\ stderr = <<>>
    /\ exception = ""
    /\ exit_status = -1

\* An uncaught exception: traceback on standard error, exit status 1.
Raise(exc) ==
    /\ pc' = "aborted"
    /\ exception' = exc
    /\ stderr' = Append(stderr, "Traceback")
    /\ exit_status' = 1

\* lines 37-39
CheckArgs ==
    /\ pc = "start"
    /\ IF UsageError(sys_argv)
       THEN /\ stderr' = Append(stderr, UsageMessage)
            /\ exit_status' = 1
            /\ pc' = "exited"
       ELSE /\ pc' = "open"
            /\ UNCHANGED <<stderr, exit_status>>
    /\ UNCHANGED <<sys_argv, openResult, infile, columns, columns_to_remove,
                   reader_fieldnames, fieldnames, read, opened, closed,
                   stdout, exception>>

\* lines 41-48
OpenInput ==
    /\ pc = "open"
    /\ IF Len(sys_argv) < 2
       THEN /\ Raise("IndexError")
            /\ UNCHANGED <<infile, columns, opened>>
       ELSE IF openResult = "ok"
       THEN /\ infile' = "file"
            /\ opened' = opened \cup {"file"}
            /\ pc' = "call"
            /\ UNCHANGED <<columns, stderr, exception, exit_status>>
       ELSE IF Caught(openResult)
       THEN /\ infile' = "stdin"
            /\ columns' = Tail(sys_argv)
            /\ pc' = "call"
            /\ UNCHANGED <<opened, stderr, exception, exit_status>>
       ELSE /\ Raise(openResult)
            /\ UNCHANGED <<infile, columns, opened>>
    /\ UNCHANGED <<sys_argv, openResult, columns_to_remove, reader_fieldnames,
                   fieldnames, read, closed, stdout>>

\* lines 50-51: the reader is made and remove_columns is entered
CallRemoveColumns ==
    /\ pc = "call"
    /\ columns_to_remove' = RemovalArgument
    /\ pc' = "rc_header"
    /\ UNCHANGED <<sys_argv, openResult, infile, columns, reader_fieldnames,
                   fieldnames, read, opened, closed, stdout, stderr,
                   exception, exit_status>>

\* lines 26-29 on a stream with a first row: the header is read, filtered, written
RC_Header ==
    /\ pc = "rc_header"
    /\ \E header \in Headers :
          /\ read' = [read EXCEPT ![infile] = Append(@, header)]
          /\ reader_fieldnames' = header
          /\ fieldnames' = FilterFieldnames(header, columns_to_remove)
          /\ stdout' = writeheader(stdout, FilterFieldnames(header, columns_to_remove))
    /\ pc' = "rc_loop"
    /\ UNCHANGED <<sys_argv, openResult, infile, columns, columns_to_remove,
                   opened, closed, stderr, exception, exit_status>>

\* line 26 on an empty stream: reader.fieldnames is None and iterating it fails
RC_HeaderEOF ==
    /\ pc = "rc_header"
    /\ Raise("TypeError")
    /\ UNCHANGED <<sys_argv, openResult, infile, columns, columns_to_remove,
                   reader_fieldnames, fieldnames, read, opened, closed, stdout>>

\* lines 31-33, one iteration: the reader skips blank lines up to the next row
RC_NextRow ==
    /\ pc = "rc_loop"
    /\ \E n \in 0..MaxRows, row \in Rows :
          /\ ~IsBlank(row)
          /\ n + 1 <= Remaining
          /\ read' = [read EXCEPT ![infile] = (@ \o Blanks(n)) \o <<row>>]
          /\ LET d == DictRow(reader_fieldnames, row)
             IN  IF KeyError(fieldnames, d)
                 THEN /\ Raise("KeyError")
                      /\ UNCHANGED stdout
                 ELSE /\ stdout' = writerow(stdout, fieldnames, FilteredRow(fieldnames, d))
                      /\ UNCHANGED <<pc, stderr, exception, exit_status>>
    /\ UNCHANGED <<sys_argv, openResult, infile, columns, columns_to_remove,
                   reader_fieldnames, fieldnames, opened, closed>>

\* line 31 at the end of the stream: the loop ends and remove_columns returns
RC_EndOfInput ==
    /\ pc = "rc_loop"
    /\ \E n \in 0..MaxRows :
          /\ n <= Remaining
          /\ read' = [read EXCEPT ![infile] = @ \o Blanks(n)]
    /\ pc' = "close"
    /\ UNCHANGED <<sys_argv, openResult, infile, columns, columns_to_remove,
                   reader_fieldnames, fieldnames, opened, closed, stdout,
                   stderr, exception, exit_status>>

\* lines 53-54, then the script ends
CloseInput ==
    /\ pc = "close"
    /\ closed' = IF infile # "stdin" THEN closed \cup {infile} ELSE closed
    /\ exit_status' = 0
    /\ pc' = "exited"
    /\ UNCHANGED <<sys_argv, openResult, infile, columns, columns_to_remove,
                   reader_fieldnames, fieldnames, read, opened, stdout,
                   stderr, exception>>

Next ==
    \/ CheckArgs
    \/ OpenInput
    \/ CallRemoveColumns
    \/ RC_Header
    \/ RC_HeaderEOF
    \/ RC_NextRow
    \/ RC_EndOfInput
    \/ CloseInput

Spec == Init /\ [][Next]_vars

----------------------------------------------------------------------------
(* remove_columns on its own, called with any of RemovalChoices *)

InitRC ==
    /\ sys_argv = <<"pycsv.py", "A">>
    /\ openResult = "FileNotFoundError"
    /\ pc = "rc_header"
    /\ infile = "stdin"
    /\ columns = <<>>
    /\ columns_to_remove \in RemovalChoices
    /\ reader_fieldnames = <<>>
    /\ fieldnames = <<>>
    /\ read = [file |-> <<>>, stdin |-> <<>>]
    /\ opened = {}
    /\ closed = {}
    /\ stdout = <<>>
    /\ stderr = <<>>
    /\ exception = ""
    /\ exit_status = -1

NextRC ==
    \/ RC_Header
    \/ RC_HeaderEOF
    \/ RC_NextRow
    \/ RC_EndOfInput

SpecRC == InitRC /\ [][NextRC]_vars

----------------------------------------------------------------------------
(* Vocabulary of the properties *)

\* the raw rows consumed from the stream the reader reads
InputRows == IF infile = "unset" THEN <<>> ELSE read[infile]

HeaderRead == Len(InputRows) >= 1

InputHeader == InputRows[1]

\* the input data records: the rows after the header that are not blank lines
DataRecords == SelectSeq(Tail(InputRows), LAMBDA r : r # <<>>)

Unique(s) == \A i, j \in 1..Len(s) : s[i] = s[j] => i = j

Removed(c) == InList(c, remove_list)

PosIn(c, s) == CHOOSE i \in 1..Len(s) : s[i] = c

\* how many of the first i header positions survive the built-in removal list
SurvivorsUpTo(i) == Cardinality({p \in 1..i : ~Removed(InputHeader[p])})

\* the record has no cell for some surviving column of the header
LacksSurvivor(rec) ==
    \E i \in (Len(rec) + 1)..Len(InputHeader) : ~Removed(InputHeader[i])

UsageTaken == \E i \in 1..Len(stderr) : stderr[i] = UsageMessage

----------------------------------------------------------------------------
(* C1: for a header of unique names, the header record written is the input
   header with the names of the removal list deleted: every output name is an
   input name outside the list, every input name outside the list appears
   exactly once, the input order is kept, and removal names that the header
   lacks raise no error. *)
C1_OutputHeader ==
    (HeaderRead /\ Unique(InputHeader)) =>
        /\ exception = ""
        /\ Len(stdout) >= 1
        /\ \A j \in 1..Len(stdout[1]) :
              InList(stdout[1][j], InputHeader) /\ ~Removed(stdout[1][j])
        /\ \A i \in 1..Len(InputHeader) :
              ~Removed(InputHeader[i]) =>
                 Cardinality({j \in 1..Len(stdout[1]) : stdout[1][j] = InputHeader[i]}) = 1
        /\ \A j1, j2 \in 1..Len(stdout[1]) :
              j1 < j2 => PosIn(stdout[1][j1], InputHeader) < PosIn(stdout[1][j2], InputHeader)

C1_Witness ==
    /\ HeaderRead
    /\ InputHeader = <<"B", "A">>
    /\ stdout[1] = <<"B", "A">>

(* C2: a run that reaches the end of its input without an error has written
   the header record first and once, then one record per input data record,
   the k-th made from the k-th input data record. *)
C2_OneRecordPerDataRecord ==
    (pc \in {"close", "exited"} /\ HeaderRead) =>
        /\ exception = ""
        /\ Len(stdout) = 1 + Len(DataRecords)
        /\ stdout[1] = fieldnames
        /\ \A j \in 1..Len(fieldnames) : InList(fieldnames[j], InputHeader)
        /\ \A k \in 1..Len(DataRecords) :
              /\ Len(stdout[k + 1]) = Len(fieldnames)
              /\ \A j \in 1..Len(fieldnames) :
                    \/ stdout[k + 1][j] = ""
                    \/ \E p \in 1..Min(Len(InputHeader), Len(DataRecords[k])) :
                          /\ InputHeader[p] = fieldnames[j]
                          /\ DataRecords[k][p] = stdout[k + 1][j]

C2_Witness ==
    /\ pc = "exited"
    /\ exit_status = 0
    /\ InputRows = <<<<"A", "E1">>, <<" x", "01">>, <<"01", " x">>>>
    /\ stdout = <<<<"A">>, <<" x">>, <<"01">>>>

(* C3: for a header of unique names, every cell an input data record has in
   a surviving column is written unchanged in that column of the
   corresponding output record. *)
C3_CellFidelity ==
    (HeaderRead /\ Unique(InputHeader)) =>
        \A k \in 1..Len(DataRecords) :
           \A i \in 1..Len(InputHeader) :
              (~Removed(InputHeader[i]) /\ i <= Len(DataRecords[k])) =>
                 /\ k + 1 <= Len(stdout)
                 /\ SurvivorsUpTo(i) <= Len(stdout[k + 1])
                 /\ stdout[k + 1][SurvivorsUpTo(i)] = DataRecords[k][i]

C3_Witness ==
    /\ HeaderRead
    /\ InputHeader = <<"E1", "B">>
    /\ Len(DataRecords) = 2
    /\ DataRecords[1] = <<" x", "01">>
    /\ DataRecords[2] = <<"01", " x">>
    /\ stdout = <<<<"B">>, <<"01">>, <<" x">>>>

(* C4: in every state, whatever the widths of the data records, the header
   record names no removed column, every output data record has exactly the
   fields of the output header, and each of its cells is the cell the input
   record has under a surviving header position of that name, or empty where
   the record has no such cell. *)
C4_NothingFromRemovedColumns ==
    HeaderRead =>
        /\ Len(stdout) >= 1
        /\ \A j \in 1..Len(stdout[1]) : ~Removed(stdout[1][j])
        /\ \A k \in 2..Len(stdout) :
              /\ k - 1 <= Len(DataRecords)
              /\ Len(stdout[k]) = Len(stdout[1])
              /\ \A j \in 1..Len(stdout[k]) :
                    \/ /\ stdout[k][j] = ""
                       /\ \E p \in (Len(DataRecords[k - 1]) + 1)..Len(InputHeader) :
                             InputHeader[p] = stdout[1][j]
                    \/ \E p \in 1..Min(Len(InputHeader), Len(DataRecords[k - 1])) :
                          /\ InputHeader[p] = stdout[1][j]
                          /\ ~Removed(InputHeader[p])
                          /\ DataRecords[k - 1][p] = stdout[k][j]

C4_Witness ==
    /\ HeaderRead
    /\ InputHeader = <<"E1", "A">>
    /\ Len(DataRecords) = 2
    /\ DataRecords[1] = <<" x", "01">>
    /\ DataRecords[2] = <<" x">>
    /\ stdout = <<<<"A">>, <<"01">>, <<"">>>>

(* C5: when the path argument names no existing file, the open error does
   not end the program: the input is read from standard input, nothing is
   opened or read from a file, and the columns removed are those of the
   built-in list whatever the arguments captured in `columns`. *)
C5_FallbackToStdin ==
    (openResult = "FileNotFoundError" /\ pc \notin {"start", "open"} /\ ~UsageTaken) =>
        /\ infile = "stdin"
        /\ opened = {}
        /\ read["file"] = <<>>
        /\ exception \notin OpenResults
        /\ columns = Tail(sys_argv)
        /\ pc # "call" => columns_to_remove = remove_list
        /\ HeaderRead =>
              /\ Len(stdout) >= 1
              /\ stdout[1] = SelectSeq(InputHeader, LAMBDA c : ~Removed(c))

C5_Witness ==
    /\ openResult = "FileNotFoundError"
    /\ columns = <<"A", "B">>
    /\ infile = "stdin"
    /\ read["stdin"] = <<<<"A", "E1">>, <<" x", "01">>>>
    /\ stdout = <<<<"A">>, <<" x">>>>

(* C6: started without an argument the program writes the usage message to
   standard error and exits with status 1, having opened and read nothing and
   written nothing to standard output; with an argument the usage exit is not
   taken. *)
C6_UsageExit ==
    /\ Len(sys_argv) < 2 =>
          /\ pc \in {"start", "exited"}
          /\ infile = "unset"
          /\ opened = {}
          /\ read = [file |-> <<>>, stdin |-> <<>>]
          /\ stdout = <<>>
          /\ pc = "exited" => (exit_status = 1 /\ stderr = <<UsageMessage>>)
    /\ Len(sys_argv) >= 2 => ~UsageTaken

C6_Witness ==
    /\ Len(sys_argv) < 2
    /\ pc = "exited"
    /\ exit_status = 1

(* C10: the fall back to standard input is taken only for a path that does
   not exist; any other open error ends the program with nothing read from
   standard input and nothing written to standard output. *)
C10_OtherOpenErrorsAbort ==
    /\ infile = "stdin" => openResult = "FileNotFoundError"
    /\ (openResult \notin {"ok", "FileNotFoundError"} /\ Len(sys_argv) >= 2) =>
          /\ pc \in {"start", "open", "aborted"}
          /\ infile = "unset"
          /\ read = [file |-> <<>>, stdin |-> <<>>]
          /\ stdout = <<>>
          /\ pc = "aborted" => (exception = openResult /\ exit_status = 1)

C10_Witness ==
    /\ pc = "aborted"
    /\ exception = "PermissionError"
    /\ read["stdin"] = <<>>

----------------------------------------------------------------------------
(* Properties of remove_columns called with any removal list (SpecRC) *)

\* the removal list names no column of the input header
NoOpRemoval == \A i \in 1..Len(InputHeader) : ~InList(InputHeader[i], columns_to_remove)

\* every data record has as many fields as the header
AllRecordsFit == \A k \in 1..Len(DataRecords) : Len(DataRecords[k]) = Len(InputHeader)

(* C7, as stated: when the removal list is empty or names no column of the
   input header, the output records (header and data records, cell by cell)
   are the input records.  Stated for the headers the data model assumes:
   not empty, names unique. *)
C7_NoOpRemovalIsIdentity ==
    (HeaderRead /\ InputHeader # <<>> /\ Unique(InputHeader) /\ NoOpRemoval) =>
        stdout = <<InputHeader>> \o DataRecords

(* C7, amended: when the removal list is empty or names no column of the
   input header, the header names are unique and every data record has
   exactly as many fields as the header, the output records are the input
   header followed by the input data records, cell by cell. *)
C7_NoOpRemovalOnRectangularInput ==
    (HeaderRead /\ NoOpRemoval /\ Unique(InputHeader) /\ AllRecordsFit) =>
        stdout = <<InputHeader>> \o DataRecords

C7_Witness ==
    /\ pc = "close"
    /\ columns_to_remove = <<>>
    /\ InputRows = <<<<"A", "E1">>, <<" x", "01">>, <<"01", " x">>>>
    /\ stdout = InputRows

----------------------------------------------------------------------------
(* Short data records and the input handle (Spec) *)

(* C8, as stated: a data record that lacks a surviving column makes the
   lookup fail with an uncaught KeyError: the run aborts at that record,
   with no output record for it or for a later record, and with the records
   written before it still in the output.  Stated for the headers the data
   model assumes: names unique. *)
C8_ShortRecordAborts ==
    (HeaderRead /\ Unique(InputHeader)) =>
        \A k \in 1..Len(DataRecords) :
           LacksSurvivor(DataRecords[k]) =>
              /\ pc = "aborted"
              /\ exception = "KeyError"
              /\ Len(DataRecords) = k
              /\ Len(stdout) = k

(* C8, amended: a data record that lacks a surviving column raises no
   error: the reader maps each missing column to None, the lookup succeeds,
   and an output record is written for it with an empty cell in every
   surviving column it lacks; the records written before it remain and the
   records after it are processed as usual. *)
C8_ShortRecordIsPadded ==
    HeaderRead =>
        /\ exception = ""
        /\ pc # "aborted"
        /\ Len(stdout) = 1 + Len(DataRecords)
        /\ \A k \in 1..Len(DataRecords) :
              LacksSurvivor(DataRecords[k]) =>
                 /\ Len(stdout[k + 1]) = Len(fieldnames)
                 /\ \A i \in (Len(DataRecords[k]) + 1)..Len(InputHeader) :
                       ~Removed(InputHeader[i]) => stdout[k + 1][SurvivorsUpTo(i)] = ""

C8_Witness ==
    /\ pc = "exited"
    /\ exit_status = 0
    /\ InputRows = <<<<"A", "B">>, <<" x">>, <<"01", " x">>>>
    /\ stdout = <<<<"A", "B">>, <<" x", "">>, <<"01", " x">>>>

(* C9: a handle the program opened is closed on every exit path, the normal
   end as well as an abrupt end by an error, and standard input is never
   closed by the program. *)
C9_HandleReleasedOnEveryExit ==
    /\ pc \in {"exited", "aborted"} => opened \subseteq closed
    /\ "stdin" \notin closed

====
